---- MODULE Spec2Model ----
(***************************************************************************)
(* Model of the request orchestrator of stark-ai (src/agent_core.py,      *)
(* class AIAgent): lazy loading of the model ranking, the walk over the   *)
(* ranked candidates in process_message, the per-user conversation        *)
(* history and its clearing.                                               *)
(*                                                                         *)
(* Texts (messages, responses, error messages, prompts) are sequences of  *)
(* lower-case words; the Russian literals of the source are written as    *)
(* English words.  A substring test of the source ('quota' in error_str)  *)
(* is a test for a contiguous run of words.                                *)
(*                                                                         *)
(* The agent runs on one asyncio event loop: the code between two         *)
(* suspending awaits is one atomic step.  The awaits that suspend are the *)
(* catalog fetch, the wait for initialization_lock, asyncio.sleep in      *)
(* _rate_limit_protection and the provider call.                          *)
(***************************************************************************)
EXTENDS Integers, Sequences, FiniteSets, TLC

\* ---------------------------------------------------------------- bounds
MaxHistoryBound == 4
MaxCalls == 3
MaxTime == 5
MaxPromptTurns == 3
MaxPromptCalls == 2
MaxTextLen == 6
MaxTasks == 2

Tasks == {"t1", "t2"}
Keys == {"u1", "u2"}
Messages == {<<"hello">>, <<"more">>}
Responses == {<<"hi", "there">>, <<"ok">>}
HistoryLimits == {MaxHistoryBound - 1, MaxHistoryBound}

\* ------------------------------------------------------------ text helpers
Contains(text, pat) ==
    \E i \in 1..(Len(text) - Len(pat) + 1) : SubSeq(text, i, i + Len(pat) - 1) = pat

\* Python's s[-n:] for n > 0
LastN(s, n) == IF Len(s) <= n THEN s ELSE SubSeq(s, Len(s) - n + 1, Len(s))

IsBlank(w) == w \in {" ", "\n", "\t"}

StripsToEmpty_never(text) == FALSE

\* response.strip() is empty
StripsToEmpty(text) == \A i \in 1..Len(text) : IsBlank(text[i])

\* ------------------------------------------------------ fixed user texts
ALL_MODELS_UNAVAILABLE == <<"all", "models", "temporarily", "unavailable", "try", "later">>
SYSTEM_ERROR_PREFIX == <<"system", "error", "processing", "message:">>
API_ERROR_PREFIX == <<"api", "error:">>
EMPTY_RESPONSE_TEXT == <<"empty", "response", "from", "model">>
GREETING_PROMPT == <<"hi!", "how", "can", "i", "help?">>
TYPE_ERROR_TEXT == <<"'nonetype'", "object", "is", "not", "subscriptable">>

\* --------------------------------------------------------- model catalog
FallbackModels ==
    << [name |-> "deepseek/deepseek-chat", api_provider |-> "deepseek"],
       [name |-> "google/gemma-7b-it", api_provider |-> "openrouter"] >>

\* A catalog entry of the OpenRouter model list: id, pricing.prompt,
\* description (words) and context_length.
Gemma == [id |-> "google/gemma-7b", prompt |-> "0",
          description |-> <<"gemma", "7b", "model">>, context_length |-> 8]
Llama == [id |-> "meta/llama-70b", prompt |-> "0",
          description |-> <<"llama", "70b">>, context_length |-> 8]
Mistral == [id |-> "mistral/tiny", prompt |-> "0",
            description |-> <<"small", "model">>, context_length |-> 4]
Paid == [id |-> "openai/gpt", prompt |-> "0.002",
         description |-> <<"paid", "175b">>, context_length |-> 16]
Bare == [id |-> "x/bare", prompt |-> "0", description |-> <<>>, context_length |-> 4]
\* an entry without the key 'id'
NoId == [prompt |-> "0", description |-> <<"nameless", "model">>, context_length |-> 4]

\* What _fetch_models_from_openrouter can return; <<>> is also its result
\* when the request fails.
Catalogs == { <<>>, <<Paid, Bare>>, <<Mistral>>, <<Mistral, Gemma, Paid, Llama>>,
              <<Mistral, NoId>> }

\* _filter_free_models, per model
IsFreeModel(model) == model.prompt = "0" /\ model.description # <<>>

RECURSIVE _filter_free_models(_)
_filter_free_models(models) ==
    IF models = <<>> THEN <<>>
    ELSE (IF IsFreeModel(Head(models)) THEN <<Head(models)>> ELSE <<>>)
         \o _filter_free_models(Tail(models))

\* the number n of a word "<n>b" (pattern (\d+)b\b), 0 when it is no such word
ParamWord(w) == CASE w = "7b" -> 7 [] w = "70b" -> 70 [] w = "175b" -> 175 [] OTHER -> 0

RECURSIVE FirstParam(_)
FirstParam(description) ==
    IF description = <<>> THEN 0
    ELSE IF ParamWord(Head(description)) > 0 THEN ParamWord(Head(description))
    ELSE FirstParam(Tail(description))

\* the factor of line 191 (10^9 there), scaled to fit a 32-bit integer; it
\* stays above every context_length of the catalog
ParamScale == 1000000

get_model_parameters(model) ==
    IF FirstParam(model.description) > 0
    THEN FirstParam(model.description) * ParamScale
    ELSE model.context_length

DeepseekIds == {"deepseek/deepseek-r1"}

\* model.get('id', '')
ModelId(model) == IF "id" \in DOMAIN model THEN model.id ELSE ""

get_model_score(model) ==
    << get_model_parameters(model), model.context_length,
       IF ModelId(model) \in DeepseekIds THEN 2 ELSE 1 >>

\* tuple comparison a > b of two scores
ScoreGreater(a, b) ==
    \/ a[1] > b[1]
    \/ a[1] = b[1] /\ a[2] > b[2]
    \/ a[1] = b[1] /\ a[2] = b[2] /\ a[3] > b[3]

\* sorted(models, key=get_model_score, reverse=True): descending and stable
RECURSIVE InsertSorted(_, _)
InsertSorted(model, sorted) ==
    IF sorted = <<>> THEN <<model>>
    ELSE IF ScoreGreater(get_model_score(Head(sorted)), get_model_score(model))
            \/ get_model_score(Head(sorted)) = get_model_score(model)
         THEN <<Head(sorted)>> \o InsertSorted(model, Tail(sorted))
         ELSE <<model>> \o sorted

RECURSIVE SortByScore(_)
SortByScore(models) ==
    IF models = <<>> THEN <<>>
    ELSE InsertSorted(models[Len(models)], SortByScore(SubSeq(models, 1, Len(models) - 1)))

_rank_models_by_parameters(models) ==
    [i \in 1..Len(models) |->
        [name |-> SortByScore(models)[i].id, api_provider |-> "openrouter"]]

\* model['id'] of line 211 raises KeyError for an entry without the key
RankingRaises(models) == \E i \in 1..Len(models) : "id" \notin DOMAIN models[i]

_get_fallback_models == FallbackModels

LoadedRanking_keepsEmpty(models) ==
    IF _filter_free_models(models) = <<>> THEN <<>>
    ELSE IF RankingRaises(_filter_free_models(models)) THEN _get_fallback_models
    ELSE _rank_models_by_parameters(_filter_free_models(models))

\* The ranking _load_free_models_ranking stores for a fetched catalog: both
\* raise statements and an exception of the ranking end in the except
\* branch, which stores the fallback list.
LoadedRanking(models) ==
    IF models = <<>> THEN _get_fallback_models
    ELSE IF _filter_free_models(models) = <<>> THEN _get_fallback_models
    ELSE IF RankingRaises(_filter_free_models(models)) THEN _get_fallback_models
    ELSE _rank_models_by_parameters(_filter_free_models(models))

\* ------------------------------------------------------- error classifier
StatusWord(status) == ToString(status)

_handle_api_error_bodyAlways(provider, status_code, response_text) ==
    <<provider, "api", "error", StatusWord(status_code)>> \o response_text

\* _handle_api_error: the message of the exception it returns
_handle_api_error(provider, status_code, response_text) ==
    IF status_code = 429 THEN <<"rate", "limit", "exceeded", "for", provider>>
    ELSE IF status_code = 401 THEN <<"invalid", "api", "key", "for", provider>>
    ELSE IF status_code = 402 THEN <<"quota", "exceeded", "for", provider>>
    ELSE IF status_code = 503 THEN <<"service", "unavailable", "for", provider>>
    ELSE <<provider, "api", "error", StatusWord(status_code)>> \o response_text

HasWord(text, w) == \E i \in 1..Len(text) : text[i] = w

_extract_error_type_noElse(error_str) ==
    IF Contains(error_str, <<"rate", "limit">>) \/ Contains(error_str, <<"too", "many", "requests">>)
    THEN "rate_limit"
    ELSE IF HasWord(error_str, "quota") \/ HasWord(error_str, "billing") \/ HasWord(error_str, "daily")
    THEN "quota_exceeded"
    ELSE IF HasWord(error_str, "authentication") \/ Contains(error_str, <<"invalid", "api", "key">>)
    THEN "authentication_error"
    ELSE IF HasWord(error_str, "timeout")
    THEN "timeout"
    ELSE IF HasWord(error_str, "network") \/ HasWord(error_str, "connection")
    THEN "network_error"
    ELSE "None"

\* _extract_error_type on the (lower-cased) message of an exception
_extract_error_type(error_str) ==
    IF Contains(error_str, <<"rate", "limit">>) \/ Contains(error_str, <<"too", "many", "requests">>)
    THEN "rate_limit"
    ELSE IF HasWord(error_str, "quota") \/ HasWord(error_str, "billing") \/ HasWord(error_str, "daily")
    THEN "quota_exceeded"
    ELSE IF HasWord(error_str, "authentication") \/ Contains(error_str, <<"invalid", "api", "key">>)
    THEN "authentication_error"
    ELSE IF HasWord(error_str, "timeout")
    THEN "timeout"
    ELSE IF HasWord(error_str, "network") \/ HasWord(error_str, "connection")
    THEN "network_error"
    ELSE "unknown_error"

\* ------------------------------------------------------------ the prompt
RECURSIVE PromptBody(_)
PromptBody(history) ==
    IF history = <<>> THEN <<>>
    ELSE (IF Head(history).role = "user" THEN <<"user:">> ELSE <<"assistant:">>)
         \o Head(history).content \o <<"\n">> \o PromptBody(Tail(history))

_build_prompt_noGreeting(history) == PromptBody(history) \o <<"assistant:">>

_build_prompt_lastTurn(history) ==
    IF history = <<>> THEN GREETING_PROMPT
    ELSE PromptBody(<<history[Len(history)]>>) \o <<"assistant:">>

_build_prompt(history) ==
    IF history = <<>> THEN GREETING_PROMPT
    ELSE PromptBody(history) \o <<"assistant:">>

_estimate_tokens_fallback_noFloor(text) == Len(text) \div 3

\* len(text) // 3 with a floor of 1; a word counts as one character here
_estimate_tokens_fallback(text) ==
    IF text = <<>> THEN 0
    ELSE IF Len(text) \div 3 > 1 THEN Len(text) \div 3 ELSE 1

\* ------------------------------------------------------ provider replies
\* What one provider call can end in: HTTP 200 with a parsed text (possibly
\* empty or blank), HTTP 200 with a body that does not parse, an HTTP error
\* status with a body, or a timeout of the transport.
OkReplies == {[kind |-> "ok", status |-> 200, text |-> r] : r \in Responses \cup {<<>>, <<" ">>}}
HttpFailures ==
    { [kind |-> "http", status |-> 401, text |-> <<"denied">>],
      [kind |-> "http", status |-> 402, text |-> <<"payment", "required">>],
      [kind |-> "http", status |-> 429, text |-> <<"daily", "limit">>],
      [kind |-> "http", status |-> 429, text |-> <<"per", "minute">>],
      [kind |-> "http", status |-> 503, text |-> <<"down">>] }
OtherFailures ==
    { [kind |-> "timeout", status |-> 0, text |-> <<>>],
      [kind |-> "badjson", status |-> 200, text |-> <<"not", "json">>] }
Replies == OkReplies \cup HttpFailures \cup OtherFailures

\* the catalogs and the replies explored when two request cycles run
\* concurrently
CoreCatalogs == { <<>>, <<Mistral>> }

OkReply == [kind |-> "ok", status |-> 200, text |-> <<"ok">>]

CoreReplies == { OkReply, [kind |-> "http", status |-> 503, text |-> <<"down">>] }

\* the replies explored with a record sink that may raise, with a clock, and
\* where every cycle has to end
SinkReplies == CoreReplies \cup {[kind |-> "ok", status |-> 200, text |-> <<>>]}
GateCatalogs == { <<Mistral>> }
LiveCatalogs == { <<>>, <<Mistral, Gemma, Paid, Llama>> }
LiveReplies == CoreReplies \cup OtherFailures

\* str(e) of the exception _call_universal_api raises for a failed call: the
\* message of _handle_api_error, of the ValueError of a response that does
\* not parse, of an exception of the HTTP client, and the empty str() of
\* asyncio.TimeoutError
ExceptionText(provider, reply) ==
    IF reply.kind = "http" THEN _handle_api_error(provider, reply.status, reply.text)
    ELSE IF reply.kind = "badjson" THEN <<"parse", "error", provider>> \o reply.text
    ELSE IF reply.kind = "raised" THEN reply.text
    ELSE <<>>

\* failure signals of a provider call: HTTP statuses with bodies, and
\* exceptions of the HTTP client with their messages
SignalStatuses == {400, 401, 402, 403, 404, 429, 500, 503}
SignalBodies ==
    { <<>>, <<"denied">>, <<"daily", "limit">>, <<"quota", "exceeded">>,
      <<"too", "many", "requests">>, <<"connection", "reset">>, <<"timeout">> }
SignalProviders == {"openrouter", "deepseek"}
Signals ==
    [kind : {"http"}, provider : SignalProviders, status : SignalStatuses,
     text : SignalBodies]
    \cup [kind : {"raised", "badjson"}, provider : SignalProviders, status : {0},
          text : SignalBodies \cup {<<"network", "is", "unreachable">>,
                                    <<"authentication", "failed">>}]
    \cup [kind : {"timeout"}, provider : SignalProviders, status : {0}, text : {<<>>}]
NoSignal == [kind |-> "none", provider |-> "", status |-> 0, text |-> <<>>]

\* the return values of _extract_error_type (lines 594-604)
ErrorTypes ==
    {"rate_limit", "quota_exceeded", "authentication_error", "timeout",
     "network_error", "unknown_error"}

\* The body of an HTTP 200 response: whether it is JSON, what is under
\* 'choices' ("ok": a list whose first entry has message.content; "missing":
\* no such key; "empty": an empty list; "null": not a list), the content,
\* and the counts under 'usage' when the key is there.
NoUsage == [present |-> FALSE, prompt_tokens |-> 0, completion_tokens |-> 0]
Bodies200 ==
    { [json |-> FALSE, choices |-> "missing", content |-> <<>>, usage |-> NoUsage],
      [json |-> TRUE, choices |-> "missing", content |-> <<>>, usage |-> NoUsage],
      [json |-> TRUE, choices |-> "empty", content |-> <<>>, usage |-> NoUsage],
      [json |-> TRUE, choices |-> "null", content |-> <<>>, usage |-> NoUsage],
      [json |-> TRUE, choices |-> "ok", content |-> <<"ok">>, usage |-> NoUsage],
      [json |-> TRUE, choices |-> "ok", content |-> <<"hi", "there">>,
       usage |-> [present |-> TRUE, prompt_tokens |-> 7, completion_tokens |-> 2]] }

\* line 473: the ValueError into which JSONDecodeError, KeyError and
\* IndexError are wrapped, carrying the text of the wrapped error
ParseError(error_text) == [kind |-> "badjson", status |-> 200, text |-> error_text]

\* an exception of another class leaves the parser as it is
Uncaught(error_text) == [kind |-> "raised", status |-> 200, text |-> error_text]

\* _parse_api_response_with_tokens for an OpenAI-compatible provider, as the
\* reply the caller sees: the text with the token counts (0 without
\* 'usage'), the ValueError that wraps JSONDecodeError, KeyError and
\* IndexError, or the TypeError of a value that cannot be indexed, which
\* the except clause of line 472 does not catch
_parse_api_response_with_tokens(body) ==
    IF ~body.json
    THEN ParseError(<<"expecting", "value">>)
    ELSE IF body.choices = "missing"
    THEN ParseError(<<"'choices'">>)
    ELSE IF body.choices = "empty"
    THEN ParseError(<<"list", "index", "out", "of", "range">>)
    ELSE IF body.choices = "null"
    THEN Uncaught(TYPE_ERROR_TEXT)
    ELSE [kind |-> "ok", status |-> 200, text |-> body.content,
          has_usage |-> body.usage.present,
          prompt_tokens |-> IF body.usage.present THEN body.usage.prompt_tokens ELSE 0,
          completion_tokens |-> IF body.usage.present THEN body.usage.completion_tokens ELSE 0]

\* what _call_universal_api hands on for the bodies of 200 responses
ParsedReplies == { _parse_api_response_with_tokens(body) : body \in Bodies200 }

\* the token counts _call_universal_api returns with a text; a reply given
\* without counts stands for a response without 'usage'
TokensOf(reply) ==
    IF "prompt_tokens" \in DOMAIN reply
    THEN <<reply.prompt_tokens, reply.completion_tokens>>
    ELSE <<0, 0>>

InnerExceptCatches_clientErrorsOnly(reply) == reply.kind \in {"http", "timeout"}

\* line 342: except Exception catches whatever the provider call raises
InnerExceptCatches(reply) == TRUE

\* _try_model_request: the returned (response, success), whether an LLM
\* request record was written and with which error type and token counts,
\* for the reply of the provider; escapes says that the exception of the
\* provider call leaves _try_model_request
_try_model_request(model, history, reply) ==
    IF reply.kind = "ok"
    THEN IF reply.text # <<>> /\ ~StripsToEmpty(reply.text)
         THEN [response |-> reply.text, success |-> TRUE, logged |-> TRUE,
               error_type |-> "none", escapes |-> FALSE,
               prompt_tokens |-> TokensOf(reply)[1],
               completion_tokens |-> TokensOf(reply)[2]]
         ELSE [response |-> EMPTY_RESPONSE_TEXT, success |-> FALSE, logged |-> FALSE,
               error_type |-> "none", escapes |-> FALSE,
               prompt_tokens |-> 0, completion_tokens |-> 0]
    ELSE IF InnerExceptCatches(reply)
    THEN [response |-> API_ERROR_PREFIX \o ExceptionText(model.api_provider, reply),
          success |-> FALSE, logged |-> TRUE,
          error_type |-> _extract_error_type(ExceptionText(model.api_provider, reply)),
          escapes |-> FALSE,
          prompt_tokens |-> _estimate_tokens_fallback(_build_prompt(history)),
          completion_tokens |-> 0]
    ELSE [response |-> ExceptionText(model.api_provider, reply),
          success |-> FALSE, logged |-> FALSE, error_type |-> "none",
          escapes |-> TRUE, prompt_tokens |-> 0, completion_tokens |-> 0]

\* ------------------------------------------------------------------ state
VARIABLES conversations, model_ranking, initialized, initialization_lock,
          max_history, pc, user_id, message, current_history, model_index,
          result, attempts, calls, appended,
          last_request_time, clock_modelled, now, wake_at, released_at, loaded,
          waited, signal, error_kind,
          history_arg, prompt, prompt_calls, text_arg, tokens,
          files, files_before, tasks, same_second, status, results

vars == <<conversations, model_ranking, initialized, initialization_lock,
          max_history, pc, user_id, message, current_history, model_index,
          result, attempts, calls, appended,
          last_request_time, clock_modelled, now, wake_at, released_at, loaded,
          waited, signal, error_kind,
          history_arg, prompt, prompt_calls, text_arg, tokens,
          files, files_before, tasks, same_second, status, results>>

\* the failure signal handed to the error classifier and its answer
classVars == <<signal, error_kind>>

\* the argument and the result of _build_prompt with the number of calls
\* made, and the argument and the result of _estimate_tokens_fallback
promptVars == <<history_arg, prompt, prompt_calls>>
estimateVars == <<text_arg, tokens>>

\* scan_project.safe_code_modification: the files on disk, the files as
\* they were when the function was called, its argument, whether all its
\* backups are made within one second of the clock, and the status and the
\* outcome per task of the call
modifyVars == <<files, files_before, tasks, same_second, status, results>>

\* what _rate_limit_protection writes, and the clock it reads
gateVars == <<last_request_time, wake_at, released_at>>
timeVars == <<clock_modelled, now>>

\* self.min_request_interval (line 55), in ticks of the clock
MinRequestInterval == 2

MessageInputs == {[is_str |-> TRUE, text |-> m] : m \in Messages}
                 \cup {[is_str |-> FALSE, text |-> <<>>]}

\* the one message sent where the text of the message does not matter
HelloInput == [is_str |-> TRUE, text |-> <<"hello">>]

UserTurn(text) == [role |-> "user", content |-> text]
AssistantTurn(text) == [role |-> "assistant", content |-> text]

\* self.conversations.get(user_id, [])
get_conversation_history(k) ==
    IF k \in DOMAIN conversations THEN conversations[k] ELSE <<>>

get_active_users == DOMAIN conversations

Stored_onlyExisting(conv, k, v) ==
    [x \in DOMAIN conv |-> IF x = k THEN v ELSE conv[x]]

Stored_everySession(conv, k, v) == [x \in (DOMAIN conv) \cup {k} |-> v]

\* self.conversations[k] = v
Stored(conv, k, v) ==
    [x \in (DOMAIN conv) \cup {k} |-> IF x = k THEN v ELSE conv[x]]

\* del self.conversations[k]
Deleted(conv, k) == [x \in (DOMAIN conv) \ {k} |-> conv[x]]

Constructed ==
    /\ conversations = [x \in {} |-> <<>>]
    /\ model_ranking = <<>>
    /\ initialized = FALSE
    /\ initialization_lock = "free"
    /\ max_history \in HistoryLimits
    /\ pc = [t \in Tasks |-> "idle"]
    /\ user_id = [t \in Tasks |-> "u1"]
    /\ message = [t \in Tasks |-> [is_str |-> TRUE, text |-> <<>>]]
    /\ current_history = [t \in Tasks |-> <<>>]
    /\ model_index = [t \in Tasks |-> 0]
    /\ result = [t \in Tasks |-> <<>>]
    /\ attempts = [t \in Tasks |-> <<>>]
    /\ calls = 0
    /\ appended = [k \in Keys |-> <<>>]
    /\ last_request_time = 0
    /\ wake_at = [t \in Tasks |-> 0]
    /\ released_at = [t \in Tasks |-> -1]
    /\ loaded = <<>>
    /\ waited = {}

\* no prompt has been built and no text has been estimated
NoPrompt == history_arg = <<>> /\ prompt = <<>> /\ prompt_calls = 0
NoEstimate == text_arg = <<>> /\ tokens = -1

\* safe_code_modification has not been called
NoModification ==
    /\ files = [x \in {} |-> <<>>] /\ files_before = files
    /\ tasks = <<>> /\ same_second = TRUE /\ status = "none" /\ results = <<>>

\* the agent after construction; the time of day is left out and
\* _rate_limit_protection may sleep or not
Init ==
    /\ Constructed /\ clock_modelled = FALSE /\ now = 0
    /\ signal = NoSignal /\ error_kind = "unclassified"
    /\ NoPrompt /\ NoEstimate /\ NoModification

\* the agent after construction, with a clock: time.time() is far from the 0
\* of line 54, so the first request does not sleep
InitGate ==
    /\ Constructed /\ clock_modelled = TRUE /\ now = MinRequestInterval
    /\ signal = NoSignal /\ error_kind = "unclassified"
    /\ NoPrompt /\ NoEstimate /\ NoModification

\* the agent after construction and a failure of a provider call about to be
\* classified
InitClassify ==
    /\ Constructed /\ clock_modelled = FALSE /\ now = 0
    /\ signal \in Signals /\ error_kind = "unclassified"
    /\ NoPrompt /\ NoEstimate /\ NoModification

\* the working copy of lines 264-265: the last max_history stored turns and
\* the new user turn
WorkingHistory_userFirst(stored, text, limit) ==
    <<UserTurn(text)>> \o LastN(stored, limit)

WorkingHistory(stored, text, limit) == Append(LastN(stored, limit), UserTurn(text))

HistoryAfterRead_alias(stored, working) == working

\* the stored list after lines 264-265: the slice is a copy, so appending the
\* user turn to the working copy leaves the stored list as it was
HistoryAfterRead(stored, working) == stored

\* lines 258-274: session creation, the working copy of the history with the
\* new user turn, and the call of the first ranked model, which suspends
Dispatch(t, m, k, ranking) ==
    /\ conversations' = Stored(conversations, k,
            HistoryAfterRead(get_conversation_history(k),
                WorkingHistory(get_conversation_history(k), m.text, max_history)))
    /\ current_history' = [current_history EXCEPT
            ![t] = WorkingHistory(get_conversation_history(k), m.text, max_history)]
    /\ IF ranking = <<>>
       THEN /\ pc' = [pc EXCEPT ![t] = "done"]
            /\ result' = [result EXCEPT ![t] = ALL_MODELS_UNAVAILABLE]
            /\ model_index' = [model_index EXCEPT ![t] = 0]
       ELSE /\ pc' = [pc EXCEPT ![t] = "calling"]
            /\ result' = [result EXCEPT ![t] = <<>>]
            /\ model_index' = [model_index EXCEPT ![t] = 1]

OuterExcept_onlyValueError(error_text) == [returns |-> FALSE, text |-> <<>>]

\* the except clause of process_message (lines 292-295): every Exception
\* raised inside the try block ends the call with the system error text
OuterExcept(error_text) == [returns |-> TRUE, text |-> SYSTEM_ERROR_PREFIX \o error_text]

\* line 637: the request came less than min_request_interval after the last
\* recorded one
MustSleep(current_time, last) == current_time - last < MinRequestInterval

\* lines 638-639: asyncio.sleep(min_request_interval - time_since_last)
GateSleeps(t) ==
    /\ wake_at' = [wake_at EXCEPT ![t] =
            IF clock_modelled
            THEN now + (MinRequestInterval - (now - last_request_time)) ELSE @]
    /\ UNCHANGED <<last_request_time, released_at>>

\* line 641: last_request_time = time.time(), and the request goes on
GateReturns(t) ==
    /\ last_request_time' = IF clock_modelled THEN now ELSE last_request_time
    /\ released_at' = [released_at EXCEPT ![t] = IF clock_modelled THEN now ELSE @]
    /\ UNCHANGED wake_at

\* lines 253-256: the activity log slices the message (a message that is not
\* a string raises, which the outer except turns into the system error
\* text), then _rate_limit_protection either sleeps or returns at once
AfterInit(t, m, k, ranking) ==
    IF ~m.is_str
    THEN /\ pc' = [pc EXCEPT ![t] =
                IF OuterExcept(TYPE_ERROR_TEXT).returns THEN "done" ELSE "raised"]
         /\ result' = [result EXCEPT ![t] = OuterExcept(TYPE_ERROR_TEXT).text]
         /\ current_history' = [current_history EXCEPT ![t] = <<>>]
         /\ model_index' = [model_index EXCEPT ![t] = 0]
         /\ UNCHANGED <<conversations, gateVars>>
    ELSE \/ /\ clock_modelled => MustSleep(now, last_request_time)
            /\ GateSleeps(t)
            /\ pc' = [pc EXCEPT ![t] = "gate_sleep"]
            /\ result' = [result EXCEPT ![t] = <<>>]
            /\ current_history' = [current_history EXCEPT ![t] = <<>>]
            /\ model_index' = [model_index EXCEPT ![t] = 0]
            /\ UNCHANGED conversations
         \/ /\ clock_modelled => ~MustSleep(now, last_request_time)
            /\ GateReturns(t)
            /\ Dispatch(t, m, k, ranking)

\* process_message is called; ensure_initialized (lines 71-73) either finds
\* the ranking loaded, takes the lock and starts the fetch, or waits for
\* the lock
Call(t, k, m) ==
    /\ pc[t] \in {"idle", "done", "raised"}
    /\ calls < MaxCalls
    /\ calls' = calls + 1
    /\ user_id' = [user_id EXCEPT ![t] = k]
    /\ message' = [message EXCEPT ![t] = m]
    /\ attempts' = [attempts EXCEPT ![t] = <<>>]
    /\ IF initialized
       THEN /\ AfterInit(t, m, k, model_ranking)
            /\ UNCHANGED initialization_lock
       ELSE /\ IF initialization_lock = "free"
               THEN /\ initialization_lock' = t
                    /\ pc' = [pc EXCEPT ![t] = "loading"]
               ELSE /\ pc' = [pc EXCEPT ![t] = "lock_wait"]
                    /\ UNCHANGED initialization_lock
            /\ result' = [result EXCEPT ![t] = <<>>]
            /\ current_history' = [current_history EXCEPT ![t] = <<>>]
            /\ model_index' = [model_index EXCEPT ![t] = 0]
            /\ UNCHANGED <<conversations, gateVars>>
    /\ waited' = IF ~initialized /\ initialization_lock # "free"
                 THEN waited \cup {t} ELSE waited \ {t}
    /\ UNCHANGED <<model_ranking, initialized, max_history, appended, timeVars, loaded,
                   classVars, promptVars, estimateVars, modifyVars>>

LockAfterLoad_held(t) == t

\* the async with block of line 72 ends: the lock is released
LockAfterLoad(t) == "free"

\* _load_free_models_ranking resumes with the fetched catalog (lines 83-113),
\* ensure_initialized sets the flag and releases the lock
LoadDone(t, models) ==
    /\ pc[t] = "loading"
    /\ model_ranking' = LoadedRanking(models)
    /\ initialized' = TRUE
    /\ initialization_lock' = LockAfterLoad(t)
    /\ AfterInit(t, message[t], user_id[t], LoadedRanking(models))
    /\ loaded' = Append(loaded, models)
    /\ UNCHANGED <<max_history, user_id, message, attempts, calls, appended, timeVars,
                   waited, classVars, promptVars, estimateVars, modifyVars>>

NeedsLoad_inverted(flag) == flag

NeedsLoad_noRecheck(flag) == TRUE

\* line 73: the flag is read again once the lock is held
NeedsLoad(flag) == ~flag

\* a task waiting for initialization_lock gets it and re-checks the flag
LockAcquired(t) ==
    /\ pc[t] = "lock_wait"
    /\ initialization_lock = "free"
    /\ IF ~NeedsLoad(initialized)
       THEN /\ AfterInit(t, message[t], user_id[t], model_ranking)
            /\ UNCHANGED initialization_lock
       ELSE /\ initialization_lock' = t
            /\ pc' = [pc EXCEPT ![t] = "loading"]
            /\ UNCHANGED <<conversations, current_history, model_index, result, gateVars>>
    /\ UNCHANGED <<model_ranking, initialized, max_history, user_id, message,
                   attempts, calls, appended, timeVars, loaded,
                   waited, classVars, promptVars, estimateVars, modifyVars>>

\* asyncio.sleep of _rate_limit_protection is over (lines 639-641)
GateWake(t) ==
    /\ pc[t] = "gate_sleep"
    /\ clock_modelled => now >= wake_at[t]
    /\ GateReturns(t)
    /\ Dispatch(t, message[t], user_id[t], model_ranking)
    /\ UNCHANGED <<model_ranking, initialized, initialization_lock, max_history,
                   user_id, message, attempts, calls, appended, timeVars, loaded,
                   waited, classVars, promptVars, estimateVars, modifyVars>>

NextModelIndex_first(i, ranking) == 1

NextModelIndex_break(i, ranking) == 0

NextModelIndex_again(i, ranking) == i

NextModelIndex_retry(i, ranking) == IF i < Len(ranking) THEN i ELSE 0

NextModelIndex_restart(i, ranking) == IF i < Len(ranking) THEN i + 1 ELSE 1

NextModelIndex_skip(i, ranking) == IF i + 1 < Len(ranking) THEN i + 2 ELSE 0

\* the index of the model tried after model i failed, 0 when the list is
\* exhausted (the for loop of line 268)
NextModelIndex(i, ranking) == IF i < Len(ranking) THEN i + 1 ELSE 0

ExhaustedResult_raw(response) == response

ExhaustedResult_withError(response) == ALL_MODELS_UNAVAILABLE \o response

\* the text returned when the loop ends without success (lines 288-290)
ExhaustedResult(response) == ALL_MODELS_UNAVAILABLE

StoredOnSuccess_answerFirst(history, response, limit) ==
    LastN(<<AssistantTurn(response)>> \o history, limit)

StoredOnSuccess_noAnswer(history, response, limit) == LastN(history, limit)

\* the history stored after a success (lines 278-279)
StoredOnSuccess(history, response, limit) ==
    LastN(Append(history, AssistantTurn(response)), limit)

SINK_ERROR_TEXT == <<"database", "is", "locked">>

_log_llm_request_unguarded(sink_raises) ==
    [raised |-> sink_raises, recorded |-> ~sink_raises]

\* _log_llm_request (lines 532-570): the whole body, the call of
\* llm_log_callback included, is inside try ... except Exception, so a
\* callback that raises loses the record and nothing else
_log_llm_request(sink_raises) == [raised |-> FALSE, recorded |-> ~sink_raises]

\* the provider call of the current model returns (lines 272-285); sink_raises
\* says whether llm_log_callback raises when the record is written.  An
\* exception leaving _log_llm_request would leave _try_model_request too
\* (the call of line 347 is inside the except clause) and reach line 292.
Reply(t, reply, sink_raises) ==
    /\ pc[t] = "calling"
    /\ LET model == model_ranking[model_index[t]]
           out == _try_model_request(model, current_history[t], reply)
           log == _log_llm_request(sink_raises)
           k == user_id[t]
       IN /\ attempts' = [attempts EXCEPT ![t] =
                 Append(@, [index |-> model_index[t], reply |-> reply,
                            success |-> out.success /\ ~(out.logged /\ log.raised),
                            logged |-> out.logged,
                            recorded |-> out.logged /\ log.recorded,
                            response |-> out.response,
                            error_type |-> out.error_type,
                            prompt_tokens |-> out.prompt_tokens,
                            completion_tokens |-> out.completion_tokens])]
          /\ IF out.logged /\ log.raised
             THEN /\ pc' = [pc EXCEPT ![t] =
                         IF OuterExcept(SINK_ERROR_TEXT).returns THEN "done" ELSE "raised"]
                  /\ result' = [result EXCEPT ![t] = OuterExcept(SINK_ERROR_TEXT).text]
                  /\ UNCHANGED <<conversations, current_history, appended, model_index>>
             ELSE IF out.escapes
             THEN /\ pc' = [pc EXCEPT ![t] =
                         IF OuterExcept(out.response).returns THEN "done" ELSE "raised"]
                  /\ result' = [result EXCEPT ![t] = OuterExcept(out.response).text]
                  /\ UNCHANGED <<conversations, current_history, appended, model_index>>
             ELSE IF out.success
             THEN /\ current_history' = [current_history EXCEPT
                          ![t] = Append(@, AssistantTurn(out.response))]
                  /\ conversations' = Stored(conversations, k,
                          StoredOnSuccess(current_history[t], out.response, max_history))
                  /\ appended' = [appended EXCEPT ![k] =
                          @ \o <<current_history[t][Len(current_history[t])],
                                 AssistantTurn(out.response)>>]
                  /\ result' = [result EXCEPT ![t] = out.response]
                  /\ pc' = [pc EXCEPT ![t] = "done"]
                  /\ UNCHANGED model_index
             ELSE /\ IF NextModelIndex(model_index[t], model_ranking) # 0
                     THEN /\ model_index' = [model_index EXCEPT
                                  ![t] = NextModelIndex(model_index[t], model_ranking)]
                          /\ UNCHANGED <<pc, result>>
                     ELSE /\ result' = [result EXCEPT ![t] = ExhaustedResult(out.response)]
                          /\ pc' = [pc EXCEPT ![t] = "done"]
                          /\ UNCHANGED model_index
                  /\ UNCHANGED <<conversations, current_history, appended>>
    /\ UNCHANGED <<model_ranking, initialized, initialization_lock, max_history,
                   user_id, message, calls, gateVars, timeVars, loaded,
                   waited, classVars, promptVars, estimateVars, modifyVars>>

\* the value clear_conversation_history(k) returns (lines 659-663)
ClearReturns(k) == k \in DOMAIN conversations

\* clear_conversation_history(k) (lines 659-663)
Clear(k) ==
    /\ conversations' = IF k \in DOMAIN conversations THEN Deleted(conversations, k)
                        ELSE conversations
    /\ appended' = [appended EXCEPT ![k] = <<>>]
    /\ UNCHANGED <<model_ranking, initialized, initialization_lock, max_history, pc,
                   user_id, message, current_history, model_index, result, attempts,
                   calls, gateVars, timeVars, loaded, waited, classVars, promptVars, estimateVars, modifyVars>>

\* time passes
Tick ==
    /\ clock_modelled
    /\ now < MaxTime
    /\ now' = now + 1
    /\ UNCHANGED <<conversations, model_ranking, initialized, initialization_lock,
                   max_history, pc, user_id, message, current_history, model_index,
                   result, attempts, calls, appended, gateVars, clock_modelled,
                   loaded, waited, classVars, promptVars, estimateVars, modifyVars>>

Next ==
    \/ \E t \in Tasks, k \in Keys, m \in MessageInputs : Call(t, k, m)
    \/ \E t \in Tasks, models \in CoreCatalogs : LoadDone(t, models)
    \/ \E t \in Tasks : LockAcquired(t)
    \/ \E t \in Tasks : GateWake(t)
    \/ \E t \in Tasks, reply \in CoreReplies : Reply(t, reply, FALSE)
    \/ \E k \in Keys : Clear(k)

\* concurrent request cycles of two tasks
Spec == Init /\ [][Next]_vars

\* request cycles of one caller, one after the other, over every reply
NextCycle ==
    \/ \E m \in MessageInputs : Call("t1", "u1", m)
    \/ \E models \in Catalogs : LoadDone("t1", models)
    \/ GateWake("t1")
    \/ \E reply \in Replies : Reply("t1", reply, FALSE)
    \/ Clear("u1")

SpecCycle == Init /\ [][NextCycle]_vars

\* request cycles of one caller whose LLM request records may fail to be
\* written
NextSink ==
    \/ \E m \in MessageInputs : Call("t1", "u1", m)
    \/ \E models \in CoreCatalogs : LoadDone("t1", models)
    \/ GateWake("t1")
    \/ \E reply \in SinkReplies, sink_raises \in BOOLEAN : Reply("t1", reply, sink_raises)
    \/ Clear("u1")

SpecSink == Init /\ [][NextSink]_vars

\* concurrent request cycles of two tasks under a clock
NextGate ==
    \/ \E t \in Tasks, k \in Keys : Call(t, k, HelloInput)
    \/ \E t \in Tasks, models \in GateCatalogs : LoadDone(t, models)
    \/ \E t \in Tasks : LockAcquired(t)
    \/ \E t \in Tasks : GateWake(t)
    \/ \E t \in Tasks : Reply(t, OkReply, FALSE)
    \/ Tick

SpecGate == InitGate /\ [][NextGate]_vars

\* request cycles of one caller in which every suspended step resumes: the
\* catalog fetch returns or fails, asyncio.sleep ends, and the provider call
\* returns or runs into request_timeout (line 381)
NextLive ==
    \/ \E m \in MessageInputs : Call("t1", "u1", m)
    \/ \E models \in LiveCatalogs : LoadDone("t1", models)
    \/ GateWake("t1")
    \/ \E reply \in LiveReplies : Reply("t1", reply, FALSE)
    \/ Clear("u1")

SpecLive ==
    /\ Init /\ [][NextLive]_vars
    /\ WF_vars(\E models \in LiveCatalogs : LoadDone("t1", models))
    /\ WF_vars(GateWake("t1"))
    /\ WF_vars(\E reply \in LiveReplies : Reply("t1", reply, FALSE))

\* concurrent request cycles of two tasks in which the suspended steps of t2
\* resume and nothing is assumed about those of t1
NextSuspend ==
    \/ \E t \in Tasks, k \in Keys : Call(t, k, HelloInput)
    \/ \E t \in Tasks, models \in CoreCatalogs : LoadDone(t, models)
    \/ \E t \in Tasks : LockAcquired(t)
    \/ \E t \in Tasks : GateWake(t)
    \/ \E t \in Tasks, reply \in CoreReplies : Reply(t, reply, FALSE)

SpecSuspend ==
    /\ Init /\ [][NextSuspend]_vars
    /\ WF_vars(LockAcquired("t2"))
    /\ WF_vars(GateWake("t2"))
    /\ WF_vars(\E reply \in CoreReplies : Reply("t2", reply, FALSE))

\* the except branch of _try_model_request classifies the exception of a
\* failed provider call (lines 342-346)
Classify ==
    /\ error_kind = "unclassified"
    /\ error_kind' = _extract_error_type(ExceptionText(signal.provider, signal))
    /\ UNCHANGED <<conversations, model_ranking, initialized, initialization_lock,
                   max_history, pc, user_id, message, current_history, model_index,
                   result, attempts, calls, appended, gateVars, timeVars, loaded,
                   waited, signal, promptVars, estimateVars, modifyVars>>

\* the error classifier applied to every failure signal
SpecClassify == InitClassify /\ [][Classify]_vars

\* request cycles of one caller over the bodies of HTTP 200 responses
NextParse ==
    \/ \E m \in MessageInputs : Call("t1", "u1", m)
    \/ \E models \in CoreCatalogs : LoadDone("t1", models)
    \/ GateWake("t1")
    \/ \E reply \in ParsedReplies : Reply("t1", reply, FALSE)
    \/ Clear("u1")

SpecParse == Init /\ [][NextParse]_vars

\* the histories _build_prompt is given: up to MaxPromptTurns turns of
\* either role
PromptTurns == {UserTurn(m) : m \in Messages} \cup {AssistantTurn(r) : r \in Responses}
PromptHistories == UNION {[1..n -> PromptTurns] : n \in 0..MaxPromptTurns}

\* the agent after construction and a history about to be serialized
InitPrompt ==
    /\ Constructed /\ clock_modelled = FALSE /\ now = 0
    /\ signal = NoSignal /\ error_kind = "unclassified"
    /\ history_arg \in PromptHistories /\ prompt = <<>> /\ prompt_calls = 0
    /\ NoEstimate /\ NoModification

\* line 308: prompt = self._build_prompt(history); the history is only read
BuildPrompt ==
    /\ prompt_calls < MaxPromptCalls
    /\ prompt' = _build_prompt(history_arg)
    /\ prompt_calls' = prompt_calls + 1
    /\ UNCHANGED <<conversations, model_ranking, initialized, initialization_lock,
                   max_history, pc, user_id, message, current_history, model_index,
                   result, attempts, calls, appended, gateVars, timeVars, loaded,
                   waited, classVars, history_arg, estimateVars, modifyVars>>

\* the prompt builder applied, repeatedly, to every history
SpecPrompt == InitPrompt /\ [][BuildPrompt]_vars

\* one word of a text
TextWords == {"a", "b"}

\* the estimator applied to the text estimated before or to that text with
\* one more word
Estimate(text) ==
    /\ Len(text) <= MaxTextLen
    /\ text_arg' = text
    /\ tokens' = _estimate_tokens_fallback(text)
    /\ UNCHANGED <<conversations, model_ranking, initialized, initialization_lock,
                   max_history, pc, user_id, message, current_history, model_index,
                   result, attempts, calls, appended, gateVars, timeVars, loaded,
                   waited, classVars, promptVars, modifyVars>>

NextEstimate ==
    \/ Estimate(text_arg)
    \/ \E w \in TextWords : Estimate(Append(text_arg, w))

\* the token estimator applied to texts of growing length
SpecEstimate == Init /\ [][NextEstimate]_vars

\* ------------------------------------- scan_project.safe_code_modification
\* A path: its directory ("." is the working directory), its base name, and
\* for a backup the time stamp in its name (0 for any other file).
RootFile == [dir |-> ".", stamp |-> 0, name |-> "a.py"]
SubFile == [dir |-> "src", stamp |-> 0, name |-> "a.py"]
TaskFiles == {RootFile, SubFile}

\* the content of a file: words, of which "bad" does not compile
RootContent == <<"one">>
SubContent == <<"two">>

\* the files on disk before the call: each of the two files is there or not
FileSystems ==
    { [x \in {} |-> <<>>],
      [x \in {RootFile} |-> RootContent],
      [x \in {SubFile} |-> SubContent],
      [x \in TaskFiles |-> IF x = RootFile THEN RootContent ELSE SubContent] }

\* the tasks: task.get('mode', 'replace'), task.get('asis', ''),
\* task.get('tobe', '')
NewTexts == {<<>>, <<"ok">>, <<"bad">>}
ModificationTasks ==
    [file : TaskFiles, mode : {"create", "append"}, asis : {<<>>}, tobe : NewTexts]
    \cup [file : TaskFiles, mode : {"replace"}, asis : {<<>>, <<"one">>}, tobe : NewTexts]
TaskLists == UNION {[1..n -> ModificationTasks] : n \in 0..MaxTasks}

\* Path(f"backup_{datetime.now().strftime('%H%M%S')}_{file_path.name}")
\* (line 333): a file of the working directory, named by the time and the
\* base name of the file
BackupPath(stamp, file_path) == [dir |-> ".", stamp |-> stamp, name |-> file_path.name]

\* the time in the name of the backup of the i-th task: the clock stays within
\* one second during the backups, or every backup is made in a later second
StampOf(i) == IF same_second THEN 1 ELSE i

\* file_path.write_text / shutil.copy2: the file has the content afterwards
Written(fs, path, content) ==
    [x \in (DOMAIN fs) \cup {path} |-> IF x = path THEN content ELSE fs[x]]

\* lines 330-336: a backup of every task's file that exists, task by task
RECURSIVE MakeBackups(_, _, _, _)
MakeBackups(fs, task_list, i, backup_files) ==
    IF i > Len(task_list) THEN [fs |-> fs, backup_files |-> backup_files]
    ELSE IF task_list[i].file \in DOMAIN fs
    THEN MakeBackups(Written(fs, BackupPath(StampOf(i), task_list[i].file),
                             fs[task_list[i].file]),
                     task_list, i + 1,
                     Append(backup_files, BackupPath(StampOf(i), task_list[i].file)))
    ELSE MakeBackups(fs, task_list, i + 1, backup_files)

\* asis in content, for an asis of one word
Occurs(asis, content) == \E j \in 1..Len(content) : <<content[j]>> = asis

\* content.replace(asis, tobe), for an asis of one word
RECURSIVE Replaced(_, _, _)
Replaced(content, asis, tobe) ==
    IF content = <<>> THEN <<>>
    ELSE (IF <<Head(content)>> = asis THEN tobe ELSE <<Head(content)>>)
         \o Replaced(Tail(content), asis, tobe)

\* lines 340-374 for one task: what happens to the task ("created",
\* "changed", or one of the three messages that skip it) and the content
\* written, if any
TaskOutcome(fs, task) ==
    IF task.tobe = <<>>
    THEN [outcome |-> "no_tobe", writes |-> FALSE, content |-> <<>>]
    ELSE IF task.mode = "create" /\ task.file \notin DOMAIN fs
    THEN [outcome |-> "created", writes |-> TRUE, content |-> task.tobe]
    ELSE IF task.file \in DOMAIN fs
    THEN IF task.mode = "append"
         THEN [outcome |-> "changed", writes |-> TRUE,
               content |-> fs[task.file] \o <<"\n">> \o task.tobe]
         ELSE IF task.mode = "replace" /\ task.asis # <<>>
         THEN IF Occurs(task.asis, fs[task.file])
              THEN [outcome |-> "changed", writes |-> TRUE,
                    content |-> Replaced(fs[task.file], task.asis, task.tobe)]
              ELSE [outcome |-> "asis_not_found", writes |-> FALSE, content |-> <<>>]
         ELSE [outcome |-> "changed", writes |-> TRUE, content |-> task.tobe]
    ELSE [outcome |-> "file_missing", writes |-> FALSE, content |-> <<>>]

\* lines 339-374: the tasks applied in order
RECURSIVE ApplyTasks(_, _, _, _)
ApplyTasks(fs, task_list, i, outcomes) ==
    IF i > Len(task_list) THEN [fs |-> fs, outcomes |-> outcomes]
    ELSE LET o == TaskOutcome(fs, task_list[i])
         IN ApplyTasks(IF o.writes THEN Written(fs, task_list[i].file, o.content) ELSE fs,
                       task_list, i + 1, Append(outcomes, o.outcome))

\* task['file'].endswith('.py')
IsPython(path) == path.name \in {"a.py"}

\* lines 377-385: compile raises SyntaxError for a Python file of a task
SyntaxCheckRaises(fs, task_list) ==
    \E i \in 1..Len(task_list) :
        /\ IsPython(task_list[i].file)
        /\ task_list[i].file \in DOMAIN fs
        /\ Occurs(<<"bad">>, fs[task_list[i].file])

\* line 399: Path(backup.name.replace(f"backup_{stamp}_", "")): the base
\* name of the backed up file, as a path of the working directory
OriginalOf(backup) == [dir |-> ".", stamp |-> 0, name |-> backup.name]

\* lines 397-401: every backup that exists is copied to its original
RECURSIVE RestoreBackups(_, _, _)
RestoreBackups(fs, backup_files, i) ==
    IF i > Len(backup_files) THEN fs
    ELSE IF backup_files[i] \in DOMAIN fs
    THEN RestoreBackups(Written(fs, OriginalOf(backup_files[i]), fs[backup_files[i]]),
                        backup_files, i + 1)
    ELSE RestoreBackups(fs, backup_files, i + 1)

\* the agent after construction, files on disk and a list of tasks
InitModify ==
    /\ Constructed /\ clock_modelled = FALSE /\ now = 0
    /\ signal = NoSignal /\ error_kind = "unclassified"
    /\ NoPrompt /\ NoEstimate
    /\ files \in FileSystems /\ files_before = files
    /\ tasks \in TaskLists /\ same_second \in BOOLEAN
    /\ status = "none" /\ results = <<>>

\* safe_code_modification(tasks) (lines 316-409): backups, changes, syntax
\* check, and the restore when the check raises
safe_code_modification ==
    /\ status = "none"
    /\ LET backed == MakeBackups(files, tasks, 1, <<>>)
           applied == ApplyTasks(backed.fs, tasks, 1, <<>>)
       IN /\ results' = applied.outcomes
          /\ IF SyntaxCheckRaises(applied.fs, tasks)
             THEN /\ files' = RestoreBackups(applied.fs, backed.backup_files, 1)
                  /\ status' = "error"
             ELSE /\ files' = applied.fs
                  /\ status' = "success"
    /\ UNCHANGED <<conversations, model_ranking, initialized, initialization_lock,
                   max_history, pc, user_id, message, current_history, model_index,
                   result, attempts, calls, appended, gateVars, timeVars, loaded,
                   waited, classVars, promptVars, estimateVars,
                   files_before, tasks, same_second>>

\* safe_code_modification applied to every list of tasks
SpecModify == InitModify /\ [][safe_code_modification]_vars

\* ================================================================ claims
LastAttempt(t) == attempts[t][Len(attempts[t])]

\* the cycle of t has ended with an answer of a model
Succeeded(t) == pc[t] = "done" /\ attempts[t] # <<>> /\ LastAttempt(t).success

\* the cycle of t has ended after its last attempt failed
Exhausted(t) == pc[t] = "done" /\ attempts[t] # <<>> /\ ~LastAttempt(t).success

\* the turns <<user text, assistant response>> of the last exchange of t are
\* next to each other in history h
HasExchange(h, t) ==
    \E i \in 1..(Len(h) - 1) :
        /\ h[i] = UserTurn(message[t].text)
        /\ h[i + 1] = AssistantTurn(result[t])

\* the failures the specification calls account-level
AccountLevel(reply) ==
    /\ reply.kind = "http"
    /\ \/ reply.status \in {401, 402}
       \/ reply.status = 429 /\ HasWord(reply.text, "daily")

RateLimitMinute(reply) ==
    reply.kind = "http" /\ reply.status = 429 /\ ~HasWord(reply.text, "daily")

\* C1: bounded history.  In every state the stored history of every session
\* has at most max_history turns, and it is the last max_history turns, in
\* order, of all the turns successful exchanges appended to the session (so
\* its length is min(N, max_history) after N appended turns).
C1_BoundedHistory ==
    \A k \in DOMAIN conversations :
        /\ Len(conversations[k]) <= max_history
        /\ conversations[k] = LastN(appended[k], max_history)

\* C2: no lost update.  When two calls of process_message for the same key
\* have both succeeded, are the two exchanges appended to the session since
\* it was last cleared, and max_history >= 4, the stored history holds the
\* user and assistant turns of both.
C2_NoLostExchange ==
    \A t1, t2 \in Tasks :
        ( /\ t1 # t2
          /\ Succeeded(t1) /\ Succeeded(t2)
          /\ user_id[t1] = user_id[t2]
          /\ max_history >= 4
          /\ Len(appended[user_id[t1]]) = 4
          /\ HasExchange(appended[user_id[t1]], t1)
          /\ HasExchange(appended[user_id[t1]], t2) )
        => /\ Len(get_conversation_history(user_id[t1])) >= 4
           /\ HasExchange(get_conversation_history(user_id[t1]), t1)
           /\ HasExchange(get_conversation_history(user_id[t1]), t2)

\* C3: rank order.  Within a cycle the j-th attempt is made on the j-th
\* model of the ranking, an attempt that succeeded is the last one of its
\* cycle, the cycle is over with it, and the returned text is exactly the
\* text of that reply.
C3_RankOrderFirstSuccess ==
    \A t \in Tasks : \A j \in 1..Len(attempts[t]) :
        /\ attempts[t][j].index = j
        /\ attempts[t][j].success =>
              /\ j = Len(attempts[t])
              /\ pc[t] = "done"
              /\ result[t] = attempts[t][j].reply.text

\* a cycle in which the first model failed and the second answered
C3_Witness ==
    \E t \in Tasks :
        /\ Succeeded(t)
        /\ Len(attempts[t]) = 2
        /\ Len(model_ranking) = 3
        /\ result[t] = <<"hi", "there">>

\* C4 as stated: an account-level failure ends the walk, so no attempt
\* follows an attempt that failed with an account-level error.
C4_AbortShortCircuits ==
    \A t \in Tasks : \A j \in 1..Len(attempts[t]) :
        AccountLevel(attempts[t][j].reply) => j = Len(attempts[t])

\* C4 amended: an account-level failure does not end the walk.  After the
\* model of rank j failed with an account-level error and a model of rank
\* j+1 exists, that model is the one called next.
C4_AccountLevelAdvances ==
    \A t \in Tasks : \A j \in 1..Len(attempts[t]) :
        (AccountLevel(attempts[t][j].reply) /\ j < Len(model_ranking))
        => \/ j < Len(attempts[t]) /\ attempts[t][j + 1].index = j + 1
           \/ j = Len(attempts[t]) /\ pc[t] = "calling" /\ model_index[t] = j + 1

\* the first model failed with HTTP 401 and the second one was called
C4_Witness ==
    \E t \in Tasks :
        /\ Len(attempts[t]) >= 2
        /\ attempts[t][1].reply.status = 401
        /\ attempts[t][2].index = 2

\* the fixed texts the specification gives the three account-level kinds
AUTH_ERROR_TEXT == <<"invalid", "api", "key", "contact", "the", "administrator">>
QUOTA_EXCEEDED_TEXT == <<"quota", "exceeded", "top", "up", "the", "account">>
DAILY_LIMIT_TEXT == <<"daily", "limit", "reached", "try", "tomorrow">>

AdvisoryText(reply) ==
    IF reply.status = 401 THEN AUTH_ERROR_TEXT
    ELSE IF reply.status = 402 THEN QUOTA_EXCEEDED_TEXT
    ELSE DAILY_LIMIT_TEXT

\* C5 as stated: a cycle that ended with an account-level failure returns
\* the fixed text of that kind, which is not the generic text.
C5_KindSpecificText ==
    \A t \in Tasks :
        (Exhausted(t) /\ AccountLevel(LastAttempt(t).reply))
        => /\ result[t] = AdvisoryText(LastAttempt(t).reply)
           /\ result[t] # ALL_MODELS_UNAVAILABLE

\* C5 amended: a cycle whose last attempt failed with an account-level error
\* ended because the ranking is exhausted, and returns the generic text,
\* the same for the three kinds.
C5_AccountLevelGenericText ==
    \A t \in Tasks :
        (Exhausted(t) /\ AccountLevel(LastAttempt(t).reply))
        => /\ result[t] = ALL_MODELS_UNAVAILABLE
           /\ Len(attempts[t]) = Len(model_ranking)

\* the only model of the ranking failed with HTTP 402 (scenario B)
C5_Witness ==
    \E t \in Tasks :
        /\ Exhausted(t)
        /\ Len(model_ranking) = 1
        /\ LastAttempt(t).reply.status = 402

\* C6 as stated: the first failure of a model with a per-minute rate limit
\* is followed by a second call of the same model.
C6_RetrySameCandidate ==
    \A t \in Tasks : \A j \in 1..(Len(attempts[t]) - 1) :
        ( /\ RateLimitMinute(attempts[t][j].reply)
          /\ (j = 1 \/ attempts[t][j - 1].index # attempts[t][j].index) )
        => attempts[t][j + 1].index = attempts[t][j].index

\* the number of calls the model of rank i received in the cycle of t
CallsTo(t, i) == Cardinality({j \in 1..Len(attempts[t]) : attempts[t][j].index = i})

\* C6 amended: a model that failed with a per-minute rate limit received
\* exactly one call, the task does not sleep after the failure, and the
\* call after it goes to the next model.
C6_RateLimitAdvances ==
    \A t \in Tasks : \A j \in 1..Len(attempts[t]) :
        RateLimitMinute(attempts[t][j].reply)
        => /\ CallsTo(t, attempts[t][j].index) = 1
           /\ j = Len(attempts[t]) => pc[t] \in {"calling", "done"}
           /\ j < Len(attempts[t]) => attempts[t][j + 1].index = attempts[t][j].index + 1
           /\ (j = Len(attempts[t]) /\ pc[t] = "calling")
                  => model_index[t] = attempts[t][j].index + 1

\* scenario A: the first model answered 429 "per minute", the second model
\* answered "hi there"
C6_Witness ==
    \E t \in Tasks :
        /\ Succeeded(t)
        /\ Len(attempts[t]) = 2
        /\ RateLimitMinute(attempts[t][1].reply)
        /\ result[t] = <<"hi", "there">>

\* C7: within a cycle no model receives more than two calls.
C7_AtMostOneRetry ==
    \A t \in Tasks : \A i \in 1..Len(model_ranking) : CallsTo(t, i) <= 2

\* a cycle in which every model of a three-model ranking failed, two of them
\* with a per-minute rate limit
C7_Witness ==
    \E t \in Tasks :
        /\ Exhausted(t)
        /\ Len(attempts[t]) = 3
        /\ RateLimitMinute(attempts[t][1].reply)
        /\ RateLimitMinute(attempts[t][2].reply)

\* the step in which the cycle of t ends with an answer
SuccessStep(t) == pc[t] = "calling" /\ pc'[t] = "done" /\ LastAttempt(t)'.success

\* a stored history never ends with a user turn
NoDanglingUserTurn ==
    \A k \in DOMAIN conversations :
        conversations[k] # <<>> => conversations[k][Len(conversations[k])].role = "assistant"

\* right after the step that ends a cycle with an answer, the last two
\* stored turns of the session are the user turn and the assistant turn
StoresBothTurns ==
    \A t \in Tasks :
        (SuccessStep(t) /\ max_history >= 2)
        => LET h == get_conversation_history(user_id[t])'
           IN /\ Len(h) >= 2
              /\ h[Len(h) - 1] = UserTurn(message[t].text)
              /\ h[Len(h)] = AssistantTurn(result'[t])

\* C8: a success stores the user turn and the assistant turn in one step:
\* right after it the last two stored turns are {user, m}, {assistant, r},
\* and in no state does a stored history end with a user turn.
C8_AtomicExchange == []NoDanglingUserTurn /\ [][StoresBothTurns]_vars

\* a cycle has just stored its exchange while the other task is in a
\* provider call for the same key
C8_Witness ==
    \E t1, t2 \in Tasks :
        /\ Succeeded(t1)
        /\ pc[t2] = "calling"
        /\ user_id[t1] = user_id[t2]
        /\ HasExchange(get_conversation_history(user_id[t1]), t1)

\* a step of clear_conversation_history: no task moves
ClearStep == UNCHANGED <<pc, attempts, calls, model_index>>

\* C9: the stored history of a session changes only in the step that ends a
\* cycle for that session with an answer, or by a clear; so no step of a
\* cycle that ends without success (all models failed, internal error)
\* changes it.
C9_FailureKeepsHistory ==
    [][ \A k \in Keys :
          get_conversation_history(k)' # get_conversation_history(k)
          => \/ ClearStep
             \/ \E t \in Tasks : user_id[t] = k /\ SuccessStep(t) ]_vars

\* every model failed in a cycle for a session that has stored turns
C9_Witness ==
    \E t \in Tasks :
        /\ Exhausted(t)
        /\ Len(attempts[t]) >= 2
        /\ get_conversation_history(user_id[t]) # <<>>

\* every model of the ranking was tried in the cycle of t and failed
AllFailed(t) ==
    /\ pc[t] = "done"
    /\ Len(attempts[t]) = Len(model_ranking)
    /\ \A j \in 1..Len(attempts[t]) : ~attempts[t][j].success

\* C10: when every model of the ranking was tried and failed, the returned
\* text is exactly the generic text, and it contains neither the message of
\* a raised exception nor the error text of a failed attempt.
C10_ExhaustionGenericText ==
    \A t \in Tasks :
        AllFailed(t)
        => /\ result[t] = ALL_MODELS_UNAVAILABLE
           /\ \A j \in 1..Len(attempts[t]) :
                 LET raw == ExceptionText(model_ranking[attempts[t][j].index].api_provider,
                                          attempts[t][j].reply)
                 IN /\ raw # <<>> => ~Contains(result[t], raw)
                    /\ ~Contains(result[t], attempts[t][j].response)

\* three models failed, none with an account-level error
C10_Witness ==
    \E t \in Tasks :
        /\ AllFailed(t)
        /\ Len(attempts[t]) = 3
        /\ \A j \in 1..3 : ~AccountLevel(attempts[t][j].reply)
        /\ attempts[t][3].reply.kind = "timeout"

\* C11: process_message never raises.  No call ends with an exception; a
\* call whose message is not a string, which makes line 253 raise inside the
\* try block, ends with the system error text, and every call that has
\* ended returned a non-empty text.
C11_NeverRaises ==
    \A t \in Tasks :
        /\ pc[t] # "raised"
        /\ pc[t] = "done" => result[t] # <<>>
        /\ (pc[t] = "done" /\ ~message[t].is_str)
               => result[t] = SYSTEM_ERROR_PREFIX \o TYPE_ERROR_TEXT

\* a call with a message that is not a string has ended
C11_Witness ==
    \E t \in Tasks :
        /\ pc[t] = "done"
        /\ ~message[t].is_str
        /\ result[t] = SYSTEM_ERROR_PREFIX \o TYPE_ERROR_TEXT

\* C12: every attempt of a cycle wrote an LLM request record, whatever its
\* outcome.
C12_EveryAttemptRecorded ==
    \A t \in Tasks : \A j \in 1..Len(attempts[t]) : attempts[t][j].logged

\* C13: an LLM request record whose writing failed changes nothing else.
\* The attempt succeeds exactly when the provider answered, a success ends
\* the cycle with the answer of the provider, a failure of the last model
\* ends it with the generic text, and any other failure is followed by the
\* next model.
C13_SinkFailureHarmless ==
    \A t \in Tasks : \A j \in 1..Len(attempts[t]) :
        LET a == attempts[t][j]
        IN (a.logged /\ ~a.recorded) =>
              /\ a.success = (a.reply.kind = "ok")
              /\ a.success => (pc[t] = "done" /\ result[t] = a.reply.text)
              /\ (~a.success /\ j = Len(attempts[t]) /\ pc[t] = "done")
                     => result[t] = ALL_MODELS_UNAVAILABLE
              /\ (~a.success /\ j < Len(attempts[t]))
                     => attempts[t][j + 1].index = a.index + 1

\* a cycle has ended with the answer of a model whose record was lost
C13_Witness ==
    \E t \in Tasks :
        /\ Succeeded(t)
        /\ LastAttempt(t).logged /\ ~LastAttempt(t).recorded
        /\ result[t] = LastAttempt(t).reply.text

\* C14: requests leave _rate_limit_protection at least min_request_interval
\* apart: the last releases of two tasks are never closer than that, so
\* never at the same instant.
C14_GateSpacing ==
    \A t \in Tasks : \A o \in Tasks \ {t} :
        (released_at[t] >= 0 /\ released_at[o] >= released_at[t])
            => released_at[o] - released_at[t] >= MinRequestInterval

\* C15: lazy initialization is free of races.  The catalog is loaded at
\* most once, exactly once when the flag is set, and nobody loads it after
\* that; until then the ranking is empty, afterwards it is the whole list
\* built from the one catalog fetched; a cycle that is past
\* ensure_initialized sees the flag set and calls a model of that list.
C15_LoadOnce ==
    /\ Len(loaded) <= 1
    /\ initialized <=> Len(loaded) = 1
    /\ Cardinality({t \in Tasks : pc[t] = "loading"}) <= 1
    /\ initialized => \A t \in Tasks : pc[t] # "loading"
    /\ model_ranking = IF initialized THEN LoadedRanking(loaded[1]) ELSE <<>>
    /\ \A t \in Tasks :
          /\ (pc[t] \in {"gate_sleep", "calling"} \/ attempts[t] # <<>>) => initialized
          /\ pc[t] = "calling" => model_index[t] \in 1..Len(model_ranking)

\* two first calls overlapped: one loaded the catalog, the other waited for
\* the lock and went on without loading; both are calling a model
C15_Witness ==
    \E t \in Tasks : \E o \in Tasks \ {t} :
        /\ Len(loaded) = 1
        /\ o \in waited
        /\ pc[t] = "calling" /\ pc[o] = "calling"

\* the free models of a fetched catalog: price "0" and a description
FreeOf(catalog) ==
    {catalog[i] : i \in {j \in 1..Len(catalog) :
        catalog[j].prompt = "0" /\ catalog[j].description # <<>>}}

\* the number of parameters behind the i-th entry of ranking, looked up in
\* the catalog by id
ParametersAt(ranking, i, catalog) ==
    get_model_parameters(CHOOSE m \in FreeOf(catalog) : ModelId(m) = ranking[i].name)

\* C16: once initialized the ranking is never empty.  It is the fallback
\* list of two models when the fetch gave nothing, when no fetched model is
\* free, or when the ranking raised; otherwise it lists every free model
\* of the catalog once, by descending number of parameters.
C16_RankingNeverEmpty ==
    initialized =>
        LET catalog == loaded[1]
            free == FreeOf(catalog)
        IN /\ model_ranking # <<>>
           /\ IF catalog = <<>> \/ free = {} \/ (\E m \in free : "id" \notin DOMAIN m)
              THEN model_ranking = FallbackModels /\ Len(model_ranking) = 2
              ELSE /\ Len(model_ranking) = Cardinality(free)
                   /\ {model_ranking[i].name : i \in 1..Len(model_ranking)}
                          = {m.id : m \in free}
                   /\ \A i \in 1..(Len(model_ranking) - 1) :
                          ParametersAt(model_ranking, i, catalog)
                              >= ParametersAt(model_ranking, i + 1, catalog)

\* the catalog had models but none of them free, and a cycle calls the
\* first model of the fallback list
C16_Witness ==
    \E t \in Tasks :
        /\ initialized
        /\ loaded[1] # <<>> /\ FreeOf(loaded[1]) = {}
        /\ model_ranking = FallbackModels
        /\ pc[t] = "calling"

\* the step of clear_conversation_history(k) for a key that has a session
\* or exchanges stored since the last clear
ClearOf(k) ==
    /\ ClearStep
    /\ \/ k \in get_active_users /\ k \notin get_active_users'
       \/ appended[k] # <<>> /\ appended'[k] = <<>>

\* C17: clear_conversation_history(k) returns True exactly when k had a
\* session; right after it k is no active user and has an empty history,
\* so that a second clear returns False; and the first exchange stored for
\* k after a clear is stored on an empty history: the stored history is
\* that exchange alone.
C17_ClearContract ==
    [][ /\ \A k \in Keys :
              ClearOf(k) => /\ ClearReturns(k) = (k \in get_active_users)
                            /\ ~ClearReturns(k)'
                            /\ k \notin get_active_users'
                            /\ get_conversation_history(k)' = <<>>
        /\ \A t \in Tasks :
              (SuccessStep(t) /\ appended[user_id[t]] = <<>> /\ max_history >= 2)
              => get_conversation_history(user_id[t])'
                     = <<UserTurn(message[t].text), AssistantTurn(result'[t])>> ]_vars

\* every provider call of the cycle of t so far was for a different model,
\* in the order of the ranking
CallsBounded(t) ==
    /\ Len(attempts[t]) <= Len(model_ranking)
    /\ \A j \in 1..Len(attempts[t]) : attempts[t][j].index = j
    /\ pc[t] = "calling" => model_index[t] = Len(attempts[t]) + 1

\* a provider call that returns either ends the cycle or moves it to the
\* next model of the ranking
ReplyAdvances(t) ==
    (pc[t] = "calling" /\ attempts'[t] # attempts[t])
    => \/ pc'[t] = "done"
       \/ pc'[t] = "calling" /\ model_index'[t] = model_index[t] + 1

\* C18: every request cycle ends.  A cycle makes at most as many provider
\* calls as the ranking has models, each call that returns ends the cycle
\* or moves it one model further, so no model is called twice, and a call
\* of process_message that has started returns when every provider call
\* returns.
C18_CycleTerminates ==
    /\ [](\A t \in Tasks : CallsBounded(t))
    /\ [][\A t \in Tasks : ReplyAdvances(t)]_vars
    /\ \A t \in Tasks : (pc[t] \notin {"idle", "done"}) ~> (pc[t] = "done")

\* a cycle has ended after one call to each of three ranked models
C18_Witness ==
    \E t \in Tasks :
        /\ pc[t] = "done"
        /\ Len(model_ranking) = 3
        /\ Len(attempts[t]) = 3
        /\ result[t] = ALL_MODELS_UNAVAILABLE

\* the task is suspended in a provider call or in the sleep of the gate
Suspended(t) == pc[t] \in {"calling", "gate_sleep"}

\* C19: a suspended request holds nobody else up.  Once the agent is
\* initialized, a call of task t2 that has started reaches its return
\* whenever its own suspended steps resume, whatever task t1 does: also when
\* t1 stays suspended in a provider call or in the sleep of the gate for
\* ever.
C19_SuspensionIsLocal ==
    (initialized /\ pc["t2"] \notin {"idle", "done"}) ~> (pc["t2"] = "done")

\* t1 loaded the catalog and has been suspended since; t2, which had to wait
\* for the initialization, went through its whole cycle for another session
\* and has its answer while t1 is still in its first provider call
C19_Witness ==
    /\ pc["t1"] = "calling" /\ attempts["t1"] = <<>>
    /\ Suspended("t1")
    /\ calls = 2
    /\ "t2" \in waited
    /\ Succeeded("t2")
    /\ user_id["t1"] # user_id["t2"]

\* C20: the error classifier is total.  Whatever the status, the body or the
\* message of the exception, _handle_api_error followed by
\* _extract_error_type gives one of the six error types.
C20_TotalClassification ==
    error_kind # "unclassified" => error_kind \in ErrorTypes

\* a status without a message of its own, with a body that names no error
\* type, has been classified
C20_Witness ==
    /\ signal.kind = "http"
    /\ signal.status \notin {401, 402, 429, 503}
    /\ signal.text = <<"denied">>
    /\ error_kind = "unknown_error"

\* an HTTP failure of the given status has been classified
ClassifiedHttp(statuses) ==
    /\ error_kind # "unclassified"
    /\ signal.kind = "http"
    /\ signal.status \in statuses

\* C21: a 429 whose body has a daily marker gets another error type than a
\* 429 per minute; a 429 with any other body is a rate limit.
C21_RateLimitSubtype ==
    ClassifiedHttp({429}) =>
        IF HasWord(signal.text, "daily")
        THEN error_kind # "rate_limit"
        ELSE error_kind = "rate_limit"

\* C22: a 401 is an authentication error and a 402 is an exceeded quota,
\* whatever the body says.
C22_AuthAndQuotaByStatus ==
    /\ ClassifiedHttp({401}) => error_kind = "authentication_error"
    /\ ClassifiedHttp({402}) => error_kind = "quota_exceeded"

\* a 401 whose body would read as a daily limit has been classified
C22_Witness ==
    /\ ClassifiedHttp({401})
    /\ signal.text = <<"daily", "limit">>
    /\ error_kind = "authentication_error"

\* C23: the error type of a 404, a 500 and a 503 is decided by the status
\* alone: it is the type the same status gets with an empty body.
C23_ServerStatusesByStatus ==
    ClassifiedHttp({404, 500, 503}) =>
        error_kind = _extract_error_type(
                         _handle_api_error(signal.provider, signal.status, <<>>))

\* the error types of the code for a failure of the transport
TransportTypes == {"network_error", "timeout"}

\* C24: a provider call that ran into its timeout is classified as a failure
\* of the transport.
C24_TimeoutIsTransportFailure ==
    (error_kind # "unclassified" /\ signal.kind = "timeout")
        => error_kind \in TransportTypes

\* the reply is a 200 response that could not be parsed
ParseFailure(reply) == reply.status = 200 /\ reply.kind \in {"badjson", "raised"}

\* C25: a 200 response that cannot be parsed never ends the call with an
\* exception or the system error text: the attempt is a failure of its model
\* with the error type unknown_error, and the cycle goes on with the next
\* model, or ends with the generic text after the last one.
C25_ParseFailureIsCandidateFailure ==
    \A t \in Tasks :
        /\ pc[t] # "raised"
        /\ \A j \in 1..Len(attempts[t]) :
              LET a == attempts[t][j]
              IN ParseFailure(a.reply) =>
                    /\ ~a.success
                    /\ a.error_type = "unknown_error"
                    /\ j < Len(attempts[t]) => attempts[t][j + 1].index = a.index + 1
                    /\ (j = Len(attempts[t]) /\ pc[t] = "done")
                           => result[t] = ALL_MODELS_UNAVAILABLE
                    /\ (j = Len(attempts[t]) /\ pc[t] = "calling")
                           => model_index[t] = a.index + 1

\* the first model answered with a body that is no JSON, the second with a
\* body of the wrong shape, and the cycle ended with the generic text
C25_Witness ==
    \E t \in Tasks :
        /\ pc[t] = "done"
        /\ Len(attempts[t]) = 2
        /\ attempts[t][1].reply.kind = "badjson"
        /\ attempts[t][2].reply.kind = "raised"
        /\ result[t] = ALL_MODELS_UNAVAILABLE

\* the provider's response carried its own token counts
CarriesUsage(reply) == "has_usage" \in DOMAIN reply /\ reply.has_usage

\* the attempt that the step adds to the attempts of t is a success whose
\* response carried no token counts
SucceedsWithoutUsage(t) ==
    /\ Len(attempts'[t]) = Len(attempts[t]) + 1
    /\ attempts'[t][Len(attempts'[t])].success
    /\ ~CarriesUsage(attempts'[t][Len(attempts'[t])].reply)

\* C29: when a successful response carries no usage counts, the success
\* record has the estimator's value for the prompt as its prompt tokens and
\* the estimator's value for the response text as its completion tokens.
C29_MissingUsageEstimated ==
    [][\A t \in Tasks :
          SucceedsWithoutUsage(t) =>
              LET a == attempts'[t][Len(attempts'[t])]
              IN /\ a.prompt_tokens
                       = _estimate_tokens_fallback(_build_prompt(current_history[t]))
                 /\ a.completion_tokens = _estimate_tokens_fallback(a.response)]_vars

\* C26: a call of _build_prompt on a history without turns returns the
\* fixed greeting, at the first call and at every later one, and leaves the
\* history as it was.
C26_EmptyHistoryGreeting ==
    [][(prompt_calls' = prompt_calls + 1 /\ history_arg = <<>>)
          => (prompt' = GREETING_PROMPT /\ history_arg' = <<>>)]_vars

\* the greeting came back from the second call on the empty history
C26_Witness ==
    history_arg = <<>> /\ prompt_calls >= 2 /\ prompt = GREETING_PROMPT

\* the lines of a text: the words before each line break, and the words
\* after the last one
RECURSIVE Lines(_, _)
Lines(text, line) ==
    IF text = <<>> THEN <<line>>
    ELSE IF Head(text) = "\n" THEN <<line>> \o Lines(Tail(text), <<>>)
    ELSE Lines(Tail(text), Append(line, Head(text)))

\* the label that starts the line of a turn
LabelOf(turn) == IF turn.role = "user" THEN "user:" ELSE "assistant:"

\* C27: the prompt of a history with turns has one line per turn, in the
\* order of the history, each made of the label of the turn's role and the
\* turn's content, followed by the cue for the assistant's answer; no turn
\* is dropped, repeated or moved.
C27_PromptSerializesTurns ==
    (prompt_calls > 0 /\ history_arg # <<>>) =>
        LET lines == Lines(prompt, <<>>)
        IN /\ Len(lines) = Len(history_arg) + 1
           /\ \A i \in 1..Len(history_arg) :
                 lines[i] = <<LabelOf(history_arg[i])>> \o history_arg[i].content
           /\ lines[Len(lines)] = <<"assistant:">>

\* a history of three turns that begins with two turns of the assistant and
\* ends with a turn of the user has been serialized twice
C27_Witness ==
    /\ prompt_calls >= 2
    /\ Len(history_arg) = 3
    /\ history_arg[1].role = "assistant"
    /\ history_arg[2].role = "assistant"
    /\ history_arg[3].role = "user"
    /\ history_arg[1].content # history_arg[2].content
    /\ Len(Lines(prompt, <<>>)) = 4

\* C28: the token estimator returns 0 for the empty text and at least 1 for
\* every other text, and a longer text never gets a smaller estimate.
C28_EstimatorContract ==
    /\ [](tokens # -1 => /\ text_arg = <<>> => tokens = 0
                         /\ text_arg # <<>> => tokens >= 1)
    /\ [][(tokens # -1 /\ Len(text_arg') >= Len(text_arg)) => tokens' >= tokens]_vars

\* a text long enough for an estimate above the floor of 1 was estimated
C28_Witness == Len(text_arg) = 6 /\ tokens = 2

\* the text has no words or only white space
EmptyOrWhitespace(text) == \A i \in 1..Len(text) : IsBlank(text[i])

\* C30: a 200 response with an empty or blank text is a failure of its
\* model: the attempt is no success, the cycle goes on with the next model
\* or ends with the generic text, and the text is neither returned to the
\* caller nor stored as a turn of the assistant.
C30_BlankResponseIsFailure ==
    /\ \A t \in Tasks :
          /\ pc[t] = "done" => ~EmptyOrWhitespace(result[t])
          /\ \A j \in 1..Len(attempts[t]) :
                LET a == attempts[t][j]
                IN (a.reply.kind = "ok" /\ EmptyOrWhitespace(a.reply.text)) =>
                      /\ ~a.success
                      /\ j < Len(attempts[t]) => attempts[t][j + 1].index = a.index + 1
                      /\ (j = Len(attempts[t]) /\ pc[t] = "calling")
                             => model_index[t] = a.index + 1
                      /\ (j = Len(attempts[t]) /\ pc[t] = "done")
                             => result[t] = ALL_MODELS_UNAVAILABLE
    /\ \A k \in DOMAIN conversations :
          \A i \in 1..Len(conversations[k]) :
              conversations[k][i].role = "assistant"
                  => ~EmptyOrWhitespace(conversations[k][i].content)

\* the first model answered with white space only, the second with a text
\* that was returned and stored
C30_Witness ==
    \E t \in Tasks :
        /\ pc[t] = "done"
        /\ Len(attempts[t]) = 2
        /\ attempts[t][1].reply.kind = "ok"
        /\ attempts[t][1].reply.text = <<" ">>
        /\ attempts[t][2].success
        /\ result[t] = attempts[t][2].response
        /\ user_id[t] \in DOMAIN conversations
        /\ conversations[user_id[t]] # <<>>
        /\ conversations[user_id[t]][Len(conversations[user_id[t]])]
               = AssistantTurn(result[t])

\* C33: an explicit clear wins over work in flight.  The turns stored for a
\* key are turns of exchanges stored since the key was last cleared, so the
\* stored history never has more turns than were stored since that clear: no
\* turn from before the clear comes back, also when a call that started
\* before the clear succeeds after it.
C33_ClearWins ==
    \A k \in DOMAIN conversations : Len(conversations[k]) <= Len(appended[k])

\* whether k has a session, and its stored history
SessionOf(k) == <<k \in get_active_users, get_conversation_history(k)>>

\* the step is one of the call of task t
Moved(t) ==
    <<pc[t], attempts[t], model_index[t], user_id[t], message[t],
      current_history[t], result[t]>>'
        # <<pc[t], attempts[t], model_index[t], user_id[t], message[t],
            current_history[t], result[t]>>

\* C34: sessions are isolated.  A step of a process_message call changes the
\* session of no key but the one the call is for, and a step of
\* clear_conversation_history, which is for one key, changes the session of
\* at most one key, whatever other calls are in flight.
C34_SessionIsolation ==
    [][ /\ \A t \in Tasks :
              Moved(t) => \A k \in Keys \ {user_id'[t]} : SessionOf(k)' = SessionOf(k)
        /\ (\A t \in Tasks : ~Moved(t))
              => Cardinality({k \in Keys : SessionOf(k)' # SessionOf(k)}) <= 1 ]_vars

\* two sessions with different stored exchanges, while a call for one of
\* them is in flight
C34_Witness ==
    \E t \in Tasks :
        /\ Keys \subseteq get_active_users
        /\ \A k \in Keys : conversations[k] # <<>>
        /\ \E j, k \in Keys : conversations[j] # conversations[k]
        /\ pc[t] = "calling"

\* C35: stored histories are well formed.  Every stored history that has
\* turns ends with a turn of the assistant, and no two turns next to each
\* other have the same role, also after the front of the history was cut off
\* at max_history turns and when calls for the same key overlap.
C35_WellFormedHistory ==
    \A k \in DOMAIN conversations :
        LET h == conversations[k]
        IN /\ h # <<>> => h[Len(h)].role = "assistant"
           /\ \A i \in 1..(Len(h) - 1) : h[i].role # h[i + 1].role

\* a stored history cut off in the middle of an exchange: it is max_history
\* turns long and begins with a turn of the assistant
C35_Witness ==
    \E k \in DOMAIN conversations :
        /\ Len(conversations[k]) = max_history
        /\ Len(appended[k]) > max_history
        /\ conversations[k][1].role = "assistant"

\* C36: the history a prompt is built from.  While a cycle is calling
\* models, its history ends with the user turn of the message of the call
\* and has at most max_history + 1 turns, so it is never empty and its
\* prompt is never the greeting; and the history is the same for every
\* model tried in the cycle.
C36_PromptHistory ==
    /\ [](\A t \in Tasks :
             pc[t] = "calling" =>
                 /\ current_history[t] # <<>>
                 /\ current_history[t][Len(current_history[t])] = UserTurn(message[t].text)
                 /\ Len(current_history[t]) <= max_history + 1
                 /\ _build_prompt(current_history[t]) # GREETING_PROMPT)
    /\ [][\A t \in Tasks :
             (pc[t] = "calling" /\ pc'[t] = "calling")
                 => current_history'[t] = current_history[t]]_vars

\* the second model of a cycle is being called with a history of
\* max_history stored turns and the new user turn
C36_Witness ==
    \E t \in Tasks :
        /\ pc[t] = "calling"
        /\ Len(attempts[t]) >= 1
        /\ Len(current_history[t]) = max_history + 1

\* C37: the ranking is written once.  From the step that sets the flag on,
\* no step changes model_ranking or resets the flag, so every later cycle
\* goes through the same list, the fallback list included.
C37_RankingWrittenOnce ==
    [][initialized => (initialized' /\ model_ranking' = model_ranking)]_vars

\* the fetch failed, the fallback list was installed, one cycle has ended and
\* a later one is calling a model of the same list
C37_Witness ==
    \E t \in Tasks : \E o \in Tasks \ {t} :
        /\ initialized
        /\ loaded[1] = <<>>
        /\ model_ranking = FallbackModels
        /\ pc[o] = "done" /\ attempts[o] # <<>>
        /\ pc[t] = "calling"
        /\ calls >= 2

\* the step in which the call of t leaves the rate gate and calls its
\* first model
PassesGate(t) == pc[t] # "calling" /\ pc'[t] = "calling"

\* C38: a session is created whether or not the cycle succeeds.  The step
\* in which a call leaves the rate gate makes its key an active user, with
\* an empty history when the key was new, and a failing attempt of the cycle
\* leaves the session as it is; a key without a session has the empty
\* history and reading it creates nothing.
C38_SessionCreatedAtGate ==
    /\ [](\A k \in Keys \ get_active_users : get_conversation_history(k) = <<>>)
    /\ [][\A t \in Tasks :
             /\ PassesGate(t) =>
                   /\ user_id'[t] \in DOMAIN conversations'
                   /\ user_id'[t] \notin get_active_users
                          => conversations'[user_id'[t]] = <<>>
             /\ (Moved(t) /\ pc[t] = "calling" /\ ~SuccessStep(t))
                   => SessionOf(user_id[t])' = SessionOf(user_id[t])]_vars

\* every model failed in the first cycle for a key, and the key is an active
\* user with an empty history
C38_Witness ==
    \E t \in Tasks :
        /\ Exhausted(t)
        /\ appended[user_id[t]] = <<>>
        /\ user_id[t] \in get_active_users
        /\ get_conversation_history(user_id[t]) = <<>>

\* the result of the call is one of the two fixed failure texts
IsFailureText(text) ==
    \/ text = ALL_MODELS_UNAVAILABLE
    \/ /\ Len(text) >= Len(SYSTEM_ERROR_PREFIX)
       /\ SubSeq(text, 1, Len(SYSTEM_ERROR_PREFIX)) = SYSTEM_ERROR_PREFIX

\* the attempts of the cycle of t for which an LLM request record was
\* emitted
Emitted(t) == {j \in 1..Len(attempts[t]) : attempts[t][j].logged}

\* C39: the attempt records of a cycle.  They are emitted in the order of
\* the ranking, there are no more of them than provider calls were made, at
\* most one of them is a success, a success record belongs to the last call
\* of the cycle, and there is one exactly when process_message returns the
\* answer of a model.
C39_AttemptRecords ==
    \A t \in Tasks :
        /\ \A i, j \in Emitted(t) :
              i < j => attempts[t][i].index < attempts[t][j].index
        /\ Cardinality(Emitted(t)) <= Len(attempts[t])
        /\ Cardinality({j \in Emitted(t) : attempts[t][j].success}) <= 1
        /\ \A j \in 1..Len(attempts[t]) :
              attempts[t][j].success => (j \in Emitted(t) /\ j = Len(attempts[t]))
        /\ (\E j \in Emitted(t) : attempts[t][j].success)
              <=> (pc[t] = "done" /\ ~IsFailureText(result[t]))

\* three models were called: the first failed with a record, the second
\* answered with an empty text and left no record, the third answered; two
\* records for three calls, the success record last
C39_Witness ==
    \E t \in Tasks :
        /\ pc[t] = "done"
        /\ Len(attempts[t]) = 3
        /\ Emitted(t) = {1, 3}
        /\ ~attempts[t][1].success
        /\ attempts[t][3].success
        /\ result[t] = attempts[t][3].response

\* C31: safe_code_modification rolls back on error.  When it returns the
\* status "error", every file that was there before the call is there, at
\* its own path, with the content it had before the call.
C31_RollbackOnError ==
    status = "error" =>
        \A path \in DOMAIN files_before :
            path \in DOMAIN files /\ files[path] = files_before[path]

\* the outcomes that mean the task was applied to its file
AppliedOutcomes == {"created", "changed"}

\* C32: safe_code_modification returns the status "success" only if every
\* task of the list was applied to its file: no task was skipped for a
\* missing tobe, an asis that was not found, or a file that does not exist.
C32_SuccessMeansAllApplied ==
    status = "success" =>
        \A i \in 1..Len(results) : results[i] \in AppliedOutcomes

====
